---- MODULE Spec2Model ----
(***************************************************************************)
(* Authentication and session-integrity core of the ICAN membership        *)
(* portal backend: the user model (routes/notifications.js, second half),  *)
(* the token functions and the request gate (middleware/auth.js), the      *)
(* public auth routes (routes/auth.js) and the authenticated password and  *)
(* account routes (routes/user.js).                                        *)
(*                                                                         *)
(* Every route handler is one action, taken at the current clock value     *)
(* `now` (milliseconds, as Date.now()).  The clock moves only in Tick, so  *)
(* several requests can be served within the same millisecond or second.   *)
(* A JSON web token is the record of everything that determines its        *)
(* string: payload claims, issued-at and expiry in whole seconds, and the  *)
(* signing key.  Two tokens are the same string iff the records are equal. *)
(*                                                                         *)
(* The per-address rate limiter in front of the auth routes only removes   *)
(* requests before a handler runs; Spec is the behaviour of the handlers   *)
(* on the requests that reach them.  A handler is a function from the      *)
(* store and the request to the response and the store after it; the       *)
(* action of the same name applies it.  Fields of the user document that   *)
(* no handler modelled here reads (name, phone, lastLogin, createdAt, ...) *)
(* are left out.                                                           *)
(*                                                                         *)
(* SpecLimiter puts the two express-rate-limit instances of the auth       *)
(* routes (the one at the mount in server.js, the one on the routes) in    *)
(* front of the handlers.  SpecConcurrent splits a failed login at its     *)
(* await points, the read of the account and the updateOne of              *)
(* incLoginAttempts, so that requests for one account can overlap;         *)
(* SpecLogins does the same for a successful login and its saves.  SpecCPD *)
(* is the enroll and progress handlers of the CPD routes on their          *)
(* in-memory module list.                                                  *)
(***************************************************************************)
EXTENDS Integers, Sequences, FiniteSets, TLC

\* ------------------------------------------------------------------ bounds
MaxUsers == 2
MaxTokens == 2
MaxSeconds == 1
MaxLockWindows == 1
MaxWeeks == 1
MaxMemberNum == 1
MaxFailRun == 6
MaxInFlight == 2

\* ------------------------------------------------------- program constants
Second == 1000
LockTime == 2 * 60 * 60 * 1000
RefreshTokenTTL == 7 * 24 * 60 * 60 * 1000
PasswordResetTTL == 60 * 60 * 1000
MaxLoginAttempts == 5
JWT_EXPIRE == 24 * 60 * 60
JWT_REFRESH_EXPIRE == 7 * 24 * 60 * 60
RESET_EXPIRE == 60 * 60
EMAIL_VERIFICATION_EXPIRE == 24 * 60 * 60
JWT_SECRET == "JWT_SECRET"
JWT_REFRESH_SECRET == "JWT_REFRESH_SECRET"
NODE_ENV == "development"

\* ------------------------------------------------------------ input values
Emails == {"ada@x.com", "bob@x.com"}
Passwords == {"Abcdef1!", "Zyxwvu9?"}
MemberNums == 0..MaxMemberNum
NoMember == -1
NoDate == -1
NoUser == 0

\* The clock values the model visits: whole seconds, lock windows and
\* refresh-token lifetimes after the start.
Instants ==
  { s * Second : s \in 0..MaxSeconds }
    \cup { h * LockTime : h \in 1..MaxLockWindows }
    \cup { w * RefreshTokenTTL : w \in 1..MaxWeeks }


\* ---------------------------------------------------------------- variables
VARIABLES
  users,     \* the User collection: sequence of documents, _id = index
  now,       \* Date.now(), milliseconds
  failRun,   \* history: per account, wrong-password logins since the last success
  revoked,   \* history: the credential invalidated last and by what: a refresh
             \* token taken out of a set by "logout" or by a password "reset",
             \* or the reset token such a reset "consumed"; NoRevoked before any
  limiter,   \* the hit counters of the two authLimiter instances, per address
  processed, \* history: per address, the requests to auth endpoints handed to a
             \* handler since the limiter of the mount last opened a window for it
  inflight,  \* login requests that have verified a wrong password and have not
             \* yet issued their update: the documents they read
  everLocked, \* history of SpecConcurrent: the accounts whose lockUntil was ever set
  logins,    \* login requests that have verified the right password and have not
             \* yet answered: the document they loaded and how far they are
  version,   \* the version key (__v) of each account's document
  issued,    \* history of SpecLogins: the refresh tokens of the logins answered 200
  modules    \* mockCPDModules: status and progress of each CPD module

\* the store and its histories; the handlers' actions write these
storeVars == <<users, now, failRun, revoked>>

\* what only SpecLimiter and SpecConcurrent move
edgeVars == <<limiter, processed, inflight, everLocked, logins, version, issued, modules>>

\* what only SpecLogins and SpecCPD move
sideVars == <<logins, version, issued, modules>>

vars ==
  <<users, now, failRun, revoked, limiter, processed, inflight, everLocked,
    logins, version, issued, modules>>

\* ------------------------------------------------------------------- tokens
\* jsonwebtoken sets iat = floor(Date.now() / 1000) and exp = iat + expiresIn.
NoToken ==
  [typ |-> "absent", userId |-> NoUser, ts |-> NoDate, iat |-> 0, exp |-> 0, key |-> "absent"]

\* a string that is not a token signed with either secret
Garbage ==
  [typ |-> "none", userId |-> NoUser, ts |-> NoDate, iat |-> 0, exp |-> 0, key |-> "forged"]

generateToken(userId, t) ==
  [typ |-> "none", userId |-> userId, ts |-> NoDate,
   iat |-> t \div Second, exp |-> (t \div Second) + JWT_EXPIRE, key |-> JWT_SECRET]

generateRefreshToken(userId, t) ==
  [typ |-> "refresh", userId |-> userId, ts |-> NoDate,
   iat |-> t \div Second, exp |-> (t \div Second) + JWT_REFRESH_EXPIRE,
   key |-> JWT_REFRESH_SECRET]

generatePasswordResetToken(t) ==
  [typ |-> "password-reset", userId |-> NoUser, ts |-> t,
   iat |-> t \div Second, exp |-> (t \div Second) + RESET_EXPIRE, key |-> JWT_SECRET]

generateEmailVerificationToken(userId, t) ==
  [typ |-> "email-verification", userId |-> userId, ts |-> NoDate,
   iat |-> t \div Second, exp |-> (t \div Second) + EMAIL_VERIFICATION_EXPIRE,
   key |-> JWT_SECRET]

\* jwt.verify(token, secret): the signature first, then the expiry
jwtVerify(tok, secret, t) ==
  IF tok.key # secret THEN "JsonWebTokenError"
  ELSE IF t \div Second >= tok.exp THEN "TokenExpiredError"
  ELSE "ok"

verifyRefreshToken(tok, t) ==
  LET v == jwtVerify(tok, JWT_REFRESH_SECRET, t)
  IN  IF v # "ok" THEN v
      ELSE IF tok.typ # "refresh" THEN "Error"
      ELSE "ok"

verifyPasswordResetToken(tok, t) ==
  LET v == jwtVerify(tok, JWT_SECRET, t)
  IN  IF v # "ok" THEN v
      ELSE IF tok.typ # "password-reset" THEN "Error"
      ELSE "ok"

verifyEmailVerificationToken(tok, t) ==
  LET v == jwtVerify(tok, JWT_SECRET, t)
  IN  IF v # "ok" THEN v
      ELSE IF tok.typ # "email-verification" THEN "Error"
      ELSE "ok"

\* --------------------------------------------------------------- user model
bcryptHash(p) == [alg |-> "bcrypt", plain |-> p]

NewUser(email, password, membershipId) ==
  [email |-> email, password |-> bcryptHash(password), membershipId |-> membershipId,
   isActive |-> TRUE, loginAttempts |-> 0, lockUntil |-> NoDate,
   refreshTokens |-> <<>>,
   passwordResetToken |-> NoToken, passwordResetExpires |-> NoDate]

isLocked(u, t) == u.lockUntil # NoDate /\ u.lockUntil > t

comparePassword(u, candidatePassword) == u.password = bcryptHash(candidatePassword)

\* as incLoginAttempts, but locking only once the counter has passed the limit
incLoginAttempts_LateLock(u, t) ==
  IF u.lockUntil # NoDate /\ u.lockUntil < t
  THEN [u EXCEPT !.lockUntil = NoDate, !.loginAttempts = 1]
  ELSE IF u.loginAttempts + 1 > MaxLoginAttempts /\ ~isLocked(u, t)
       THEN [u EXCEPT !.loginAttempts = @ + 1, !.lockUntil = t + LockTime]
       ELSE [u EXCEPT !.loginAttempts = @ + 1]

incLoginAttempts(u, t) ==
  IF u.lockUntil # NoDate /\ u.lockUntil < t
  THEN [u EXCEPT !.lockUntil = NoDate, !.loginAttempts = 1]
  ELSE IF u.loginAttempts + 1 >= MaxLoginAttempts /\ ~isLocked(u, t)
       THEN [u EXCEPT !.loginAttempts = @ + 1, !.lockUntil = t + LockTime]
       ELSE [u EXCEPT !.loginAttempts = @ + 1]

resetLoginAttempts(u) == [u EXCEPT !.loginAttempts = 0, !.lockUntil = NoDate]

\* as cleanExpiredTokens, but keeping the entry that expires at this instant
cleanExpiredTokens_Inclusive(u, t) ==
  LET unexpired(tokenObj) == tokenObj.expiresAt >= t
  IN  [u EXCEPT !.refreshTokens = SelectSeq(@, unexpired)]

cleanExpiredTokens(u, t) ==
  LET unexpired(tokenObj) == tokenObj.expiresAt > t
  IN  [u EXCEPT !.refreshTokens = SelectSeq(@, unexpired)]

pushRefreshToken(u, tok, t) ==
  [u EXCEPT !.refreshTokens = Append(@, [token |-> tok, expiresAt |-> t + RefreshTokenTTL])]

UserIds == 1..Len(users)

\* the first document of the collection that satisfies a query, NoUser when none
\* (matching is the set of ids whose documents satisfy it)
findOne(matching) ==
  IF matching # {}
  THEN CHOOSE i \in matching : \A j \in matching : i <= j
  ELSE NoUser

\* User.findOne({ email })
findByEmail(email) ==
  LET match(u) == u.email = email
  IN  findOne({ i \in UserIds : match(users[i]) })

findById(id) == IF id \in UserIds THEN id ELSE NoUser

hasRefreshToken(u, tok) ==
  \E k \in 1..Len(u.refreshTokens) : u.refreshTokens[k].token = tok


NoRevoked == [token |-> NoToken, by |-> "none"]

\* ---------------------------------------------------------------- responses
\* A handler's result: the response sent and the collection after the request.
Response(status, message, token, refreshToken, resetToken) ==
  [status |-> status, message |-> message,
   token |-> token, refreshToken |-> refreshToken, resetToken |-> resetToken]

Fail(status, message) == Response(status, message, NoToken, NoToken, NoToken)

Success(status, message) == Response(status, message, NoToken, NoToken, NoToken)

\* handleValidationErrors
ValidationFailed == Fail(400, "Validation failed")

Rejected(response) == [resp |-> response, users |-> users]

\* Status the global error handler gives an error that is not an AppError.
errorStatus(name) ==
  CASE name = "JsonWebTokenError" -> 401
    [] name = "TokenExpiredError" -> 401
    [] name = "Error" -> 401
    [] name = "MongoServerError" -> 500
    [] OTHER -> 500

errorResponse(name) == Fail(errorStatus(name), name)

\* ------------------------------------------------------ request validation
\* The validators read a field character by character: such a field is the
\* sequence of its characters.  An email address is known to the store only as
\* a whole; isEmail is the library's verdict on the addresses the model uses.
Lowercase ==
  {"a", "b", "c", "d", "e", "f", "g", "h", "i", "j", "k", "l", "m",
   "n", "o", "p", "q", "r", "s", "t", "u", "v", "w", "x", "y", "z"}

Uppercase ==
  {"A", "B", "C", "D", "E", "F", "G", "H", "I", "J", "K", "L", "M",
   "N", "O", "P", "Q", "R", "S", "T", "U", "V", "W", "X", "Y", "Z"}

Digits == {"0", "1", "2", "3", "4", "5", "6", "7", "8", "9"}

\* the class [@$!%*?&] of the registration rule
Specials == {"@", "$", "!", "%", "*", "?", "&"}

\* /^(?=.*[class])/
hasChar(str, class) == \E k \in 1..Len(str) : str[k] \in class

RECURSIVE trimLeft(_)
trimLeft(str) ==
  IF str # <<>> /\ Head(str) = " " THEN trimLeft(Tail(str)) ELSE str

RECURSIVE trimRight(_)
trimRight(str) ==
  IF str # <<>> /\ str[Len(str)] = " "
  THEN trimRight(SubSeq(str, 1, Len(str) - 1))
  ELSE str

trim(str) == trimRight(trimLeft(str))

\* body("name").trim().isLength({ min: 2, max: 100 })
nameValid(name) == Len(trim(name)) >= 2 /\ Len(trim(name)) <= 100

isEmail(email) == email \in Emails \cup {"john.doe@example.com"}

\* body("password"): the five rules of registerValidation
registerPasswordValid(password) ==
  /\ Len(password) >= 8
  /\ hasChar(password, Lowercase)
  /\ hasChar(password, Uppercase)
  /\ hasChar(password, Digits)
  /\ hasChar(password, Specials)

\* /^(\+234|0)[789][01]\d{8}$/ on the trimmed field
phoneValid(phone) ==
  LET str == trim(phone)
      rest == IF Len(str) >= 1 /\ str[1] = "0" THEN SubSeq(str, 2, Len(str))
              ELSE IF Len(str) >= 4 /\ SubSeq(str, 1, 4) = <<"+", "2", "3", "4">>
                   THEN SubSeq(str, 5, Len(str))
                   ELSE <<>>
  IN  /\ Len(rest) = 10
      /\ rest[1] \in {"7", "8", "9"}
      /\ rest[2] \in {"0", "1"}
      /\ \A k \in 3..10 : rest[k] \in Digits

\* registerValidation followed by handleValidationErrors: TRUE when the
\* request goes on to the handler.  A membership id of the model stands for
\* a well-formed ICAN/YYYY/NNN string.
registerValidation(body) ==
  /\ nameValid(body.name)
  /\ isEmail(body.email)
  /\ registerPasswordValid(body.password)
  /\ phoneValid(body.phone)
  /\ (body.membershipId = NoMember \/ body.membershipId \in MemberNums)

\* the user of the test script (test-api.js) and of the cURL example
testUser ==
  [name |-> <<"J", "o", "h", "n", " ", "D", "o", "e">>,
   email |-> "john.doe@example.com",
   password |-> <<"P", "a", "s", "s", "w", "o", "r", "d", "1", "2", "3">>,
   phone |-> <<"0", "8", "0", "1", "2", "3", "4", "5", "6", "7", "8">>,
   membershipId |-> NoMember]

\* --------------------------------------------------------- POST /register
\* as emailTaken, with the lookup left out
emailTaken_Never(email) == FALSE

emailTaken(email) == findByEmail(email) # NoUser

membershipTaken(membershipId) ==
  LET match(u) == u.membershipId = membershipId
  IN  findOne({ i \in UserIds : match(users[i]) }) # NoUser

\* the unique indexes on email and membershipId, enforced by the store on save
uniqueIndexViolated(doc) ==
  \E i \in UserIds :
     \/ users[i].email = doc.email
     \/ users[i].membershipId = doc.membershipId

\* randomNum is the value Math.random() gives the membership-id hook
register(email, password, membershipId, randomNum, wellFormed) ==
  LET doc == NewUser(email, password,
                     IF membershipId # NoMember THEN membershipId ELSE randomNum)
      id == Len(users) + 1
      token == generateToken(id, now)
      refreshToken == generateRefreshToken(id, now)
  IN  IF ~wellFormed THEN Rejected(ValidationFailed)
      ELSE IF emailTaken(email)
      THEN Rejected(Fail(400, "User with this email already exists"))
      ELSE IF membershipId # NoMember /\ membershipTaken(membershipId)
      THEN Rejected(Fail(400, "Membership ID already exists"))
      ELSE IF uniqueIndexViolated(doc)
      THEN Rejected(errorResponse("MongoServerError"))
      ELSE [resp |-> Response(201, "User registered successfully",
                              token, refreshToken, NoToken),
            users |-> Append(users, pushRefreshToken(doc, refreshToken, now))]

Register(email, password, membershipId, randomNum, wellFormed) ==
  LET result == register(email, password, membershipId, randomNum, wellFormed)
  IN  /\ Len(result.users) <= MaxUsers
      /\ users' = result.users
      /\ failRun' = IF Len(result.users) > Len(users) THEN Append(failRun, 0) ELSE failRun
      /\ UNCHANGED <<now, revoked>>

\* ------------------------------------------------------------ POST /login
\* as loginBranch, but comparing the password before looking at the lock
loginBranch_PasswordFirst(email, password, wellFormed) ==
  LET id == findByEmail(email)
  IN  IF ~wellFormed THEN "validation"
      ELSE IF id = NoUser THEN "notfound"
      ELSE IF ~comparePassword(users[id], password) THEN "badpassword"
      ELSE IF isLocked(users[id], now) THEN "locked"
      ELSE IF ~users[id].isActive THEN "inactive"
      ELSE "ok"

\* as loginBranch, without the check of the active flag
loginBranch_NoActiveCheck(email, password, wellFormed) ==
  LET id == findByEmail(email)
  IN  IF ~wellFormed THEN "validation"
      ELSE IF id = NoUser THEN "notfound"
      ELSE IF isLocked(users[id], now) THEN "locked"
      ELSE IF ~comparePassword(users[id], password) THEN "badpassword"
      ELSE "ok"

\* as loginBranch, without the check of the lock
loginBranch_NoLockCheck(email, password, wellFormed) ==
  LET id == findByEmail(email)
  IN  IF ~wellFormed THEN "validation"
      ELSE IF id = NoUser THEN "notfound"
      ELSE IF ~users[id].isActive THEN "inactive"
      ELSE IF ~comparePassword(users[id], password) THEN "badpassword"
      ELSE "ok"

\* which exit of the handler a request takes
loginBranch(email, password, wellFormed) ==
  LET id == findByEmail(email)
  IN  IF ~wellFormed THEN "validation"
      ELSE IF id = NoUser THEN "notfound"
      ELSE IF isLocked(users[id], now) THEN "locked"
      ELSE IF ~users[id].isActive THEN "inactive"
      ELSE IF ~comparePassword(users[id], password) THEN "badpassword"
      ELSE "ok"

\* as loginFailure, but telling an unknown address apart
loginFailure_UserNotFound(branch) ==
  CASE branch = "validation" -> ValidationFailed
    [] branch = "notfound" -> Fail(404, "User not found")
    [] branch = "locked" ->
         Fail(423, "Account is temporarily locked due to too many failed login attempts")
    [] branch = "inactive" -> Fail(401, "Account is deactivated")
    [] branch = "badpassword" -> Fail(401, "Invalid credentials")

loginFailure(branch) ==
  CASE branch = "validation" -> ValidationFailed
    [] branch = "notfound" -> Fail(401, "Invalid credentials")
    [] branch = "locked" ->
         Fail(423, "Account is temporarily locked due to too many failed login attempts")
    [] branch = "inactive" -> Fail(401, "Account is deactivated")
    [] branch = "badpassword" -> Fail(401, "Invalid credentials")

\* the account after a successful login, before the new refresh token is pushed
loginReset(u, t) ==
  cleanExpiredTokens(IF u.loginAttempts > 0 THEN resetLoginAttempts(u) ELSE u, t)

login(email, password, wellFormed) ==
  LET branch == loginBranch(email, password, wellFormed)
      id == findByEmail(email)
      token == generateToken(id, now)
      refreshToken == generateRefreshToken(id, now)
  IN  IF branch = "ok"
      THEN [resp |-> Response(200, "Login successful", token, refreshToken, NoToken),
            users |-> [users EXCEPT
                         ![id] = pushRefreshToken(loginReset(@, now), refreshToken, now)]]
      ELSE IF branch = "badpassword"
      THEN [resp |-> loginFailure(branch),
            users |-> [users EXCEPT ![id] = incLoginAttempts(@, now)]]
      ELSE Rejected(loginFailure(branch))

Login(email, password, wellFormed) ==
  LET branch == loginBranch(email, password, wellFormed)
      id == findByEmail(email)
      result == login(email, password, wellFormed)
  IN  /\ \A i \in UserIds : Len(result.users[i].refreshTokens) <= MaxTokens
      /\ users' = result.users
      /\ failRun' = IF branch = "ok" THEN [failRun EXCEPT ![id] = 0]
                    ELSE IF branch = "badpassword"
                    THEN [failRun EXCEPT ![id] = IF @ < MaxFailRun THEN @ + 1 ELSE @]
                    ELSE failRun
      /\ UNCHANGED <<now, revoked>>

\* ---------------------------------------------------------- POST /refresh
refreshBranch(refreshToken) ==
  LET verified == verifyRefreshToken(refreshToken, now)
      id == findById(refreshToken.userId)
  IN  IF refreshToken = NoToken THEN "missing"
      ELSE IF verified # "ok" THEN verified
      ELSE IF id = NoUser THEN "notfound"
      ELSE IF ~hasRefreshToken(users[id], refreshToken) THEN "unknown"
      ELSE IF ~users[id].isActive THEN "inactive"
      ELSE "ok"

\* as refresh, but taking the exchanged token out of the account's set
refresh_Rotating(refreshToken) ==
  LET branch == refreshBranch(refreshToken)
      id == refreshToken.userId
  IN  IF branch = "ok"
      THEN [resp |-> Response(200, "Token refreshed successfully",
                              generateToken(id, now), NoToken, NoToken),
            users |-> [users EXCEPT
                         ![id].refreshTokens =
                            SelectSeq(@, LAMBDA tokenObj : tokenObj.token # refreshToken)]]
      ELSE Rejected(Fail(401, "Invalid refresh token"))

refresh(refreshToken) ==
  LET branch == refreshBranch(refreshToken)
  IN  Rejected(
        CASE branch = "missing" -> Fail(400, "Refresh token is required")
          [] branch = "notfound" -> Fail(404, "User not found")
          [] branch = "unknown" -> Fail(401, "Invalid refresh token")
          [] branch = "inactive" -> Fail(401, "Account is deactivated")
          [] branch = "ok" ->
               Response(200, "Token refreshed successfully",
                        generateToken(refreshToken.userId, now), NoToken, NoToken)
          [] OTHER -> errorResponse(branch))

Refresh(refreshToken) ==
  /\ users' = refresh(refreshToken).users
  /\ UNCHANGED <<now, failRun, revoked>>


\* ----------------------------------------------------------- POST /logout
\* User.findOne({ "refreshTokens.token": refreshToken })
findByRefreshToken(refreshToken) ==
  LET match(u) == hasRefreshToken(u, refreshToken)
  IN  findOne({ i \in UserIds : match(users[i]) })

\* as removeRefreshToken, but ending every session of the account
removeRefreshToken_All(u, refreshToken) ==
  [u EXCEPT !.refreshTokens = <<>>]

removeRefreshToken(u, refreshToken) ==
  LET other(tokenObj) == tokenObj.token # refreshToken
  IN  [u EXCEPT !.refreshTokens = SelectSeq(@, other)]

logout(refreshToken) ==
  LET id == IF refreshToken = NoToken THEN NoUser ELSE findByRefreshToken(refreshToken)
  IN  [resp |-> Success(200, "Logged out successfully"),
       users |-> IF id # NoUser
                 THEN [users EXCEPT ![id] = removeRefreshToken(@, refreshToken)]
                 ELSE users]

Logout(refreshToken) ==
  /\ users' = logout(refreshToken).users
  /\ revoked' = IF refreshToken # NoToken /\ findByRefreshToken(refreshToken) # NoUser
                THEN [token |-> refreshToken, by |-> "logout"]
                ELSE revoked
  /\ UNCHANGED <<now, failRun>>

\* -------------------------------------------------- POST /forgot-password
forgotPassword(email, wellFormed) ==
  LET id == findByEmail(email)
      resetToken == generatePasswordResetToken(now)
  IN  IF ~wellFormed THEN Rejected(ValidationFailed)
      ELSE IF id = NoUser
      THEN Rejected(Success(200,
             "If an account with that email exists, a password reset link has been sent"))
      ELSE [resp |-> Response(200, "Password reset instructions sent to your email",
                              NoToken, NoToken,
                              IF NODE_ENV = "development" THEN resetToken ELSE NoToken),
            users |-> [users EXCEPT ![id].passwordResetToken = resetToken,
                                    ![id].passwordResetExpires = now + PasswordResetTTL]]

ForgotPassword(email, wellFormed) ==
  /\ users' = forgotPassword(email, wellFormed).users
  /\ UNCHANGED <<now, failRun, revoked>>

\* --------------------------------------------------- POST /reset-password
\* User.findOne({ passwordResetToken: token, passwordResetExpires: { $gt: Date.now() } })
findByResetToken(token) ==
  LET match(u) == u.passwordResetToken = token /\ u.passwordResetExpires > now
  IN  findOne({ i \in UserIds : match(users[i]) })

\* as resetPasswordUpdate, but activating the account again
resetPasswordUpdate_Reactivates(u, newPassword) ==
  [u EXCEPT !.password = bcryptHash(newPassword),
            !.passwordResetToken = NoToken,
            !.passwordResetExpires = NoDate,
            !.refreshTokens = <<>>,
            !.isActive = TRUE]

\* as resetPasswordUpdate, but unlocking the account as well
resetPasswordUpdate_Unlocks(u, newPassword) ==
  [u EXCEPT !.password = bcryptHash(newPassword),
            !.passwordResetToken = NoToken,
            !.passwordResetExpires = NoDate,
            !.refreshTokens = <<>>,
            !.loginAttempts = 0,
            !.lockUntil = NoDate]

resetPasswordUpdate(u, newPassword) ==
  [u EXCEPT !.password = bcryptHash(newPassword),
            !.passwordResetToken = NoToken,
            !.passwordResetExpires = NoDate,
            !.refreshTokens = <<>>]

\* the account a reset-password request resets, NoUser when it is refused
resetTarget(token, wellFormed) ==
  IF ~wellFormed \/ verifyPasswordResetToken(token, now) # "ok"
  THEN NoUser
  ELSE findByResetToken(token)

resetPassword(token, newPassword, wellFormed) ==
  LET id == resetTarget(token, wellFormed)
  IN  IF ~wellFormed THEN Rejected(ValidationFailed)
      ELSE IF id = NoUser THEN Rejected(Fail(400, "Invalid or expired reset token"))
      ELSE [resp |-> Success(200, "Password reset successfully"),
            users |-> [users EXCEPT ![id] = resetPasswordUpdate(@, newPassword)]]

ResetPassword(token, newPassword, wellFormed) ==
  LET id == resetTarget(token, wellFormed)
  IN  /\ users' = resetPassword(token, newPassword, wellFormed).users
      /\ IF id = NoUser
         THEN UNCHANGED revoked
         ELSE \/ revoked' = [token |-> token, by |-> "consumed"]
              \/ \E k \in 1..Len(users[id].refreshTokens) :
                   revoked' = [token |-> users[id].refreshTokens[k].token, by |-> "reset"]
      /\ UNCHANGED <<now, failRun>>

\* ------------------------------------------------------- the request gate
\* as authenticateToken, without the check of the lock
authenticateToken_NoLockCheck(token) ==
  LET verified == jwtVerify(token, JWT_SECRET, now)
      id == findById(token.userId)
      reject(message) == [pass |-> FALSE, user |-> NoUser, resp |-> Fail(401, message)]
  IN  IF token = NoToken THEN reject("Access token required")
      ELSE IF verified = "JsonWebTokenError" THEN reject("Invalid token")
      ELSE IF verified = "TokenExpiredError" THEN reject("Token expired")
      ELSE IF id = NoUser THEN reject("User not found")
      ELSE IF ~users[id].isActive THEN reject("Account is deactivated")
      ELSE [pass |-> TRUE, user |-> id, resp |-> Success(200, "next")]

\* authenticateToken: pass when the request goes on with req.user = user
authenticateToken(token) ==
  LET verified == jwtVerify(token, JWT_SECRET, now)
      id == findById(token.userId)
      reject(message) == [pass |-> FALSE, user |-> NoUser, resp |-> Fail(401, message)]
  IN  IF token = NoToken THEN reject("Access token required")
      ELSE IF verified = "JsonWebTokenError" THEN reject("Invalid token")
      ELSE IF verified = "TokenExpiredError" THEN reject("Token expired")
      ELSE IF id = NoUser THEN reject("User not found")
      ELSE IF ~users[id].isActive THEN reject("Account is deactivated")
      ELSE IF isLocked(users[id], now) THEN reject("Account is temporarily locked")
      ELSE [pass |-> TRUE, user |-> id, resp |-> Success(200, "next")]

\* GET /api/user/profile: a protected request that only reads
getProfile(token) == Rejected(authenticateToken(token).resp)

GetProfile(token) ==
  /\ users' = getProfile(token).users
  /\ UNCHANGED <<now, failRun, revoked>>

\* ------------------------------------------ POST /api/user/change-password
\* as changePassword, but counting a wrong current password as a failed login
changePassword_CountsFailures(token, currentPassword, newPassword, wellFormed) ==
  LET gate == authenticateToken(token)
      id == gate.user
  IN  IF ~gate.pass THEN Rejected(gate.resp)
      ELSE IF ~wellFormed THEN Rejected(ValidationFailed)
      ELSE IF ~comparePassword(users[id], currentPassword)
      THEN [resp |-> Fail(400, "Current password is incorrect"),
            users |-> [users EXCEPT ![id] = incLoginAttempts(@, now)]]
      ELSE IF comparePassword(users[id], newPassword)
      THEN Rejected(Fail(400, "New password must be different from current password"))
      ELSE [resp |-> Success(200, "Password changed successfully. Please log in again."),
            users |-> [users EXCEPT ![id].password = bcryptHash(newPassword),
                                    ![id].refreshTokens = <<>>]]

changePassword(token, currentPassword, newPassword, wellFormed) ==
  LET gate == authenticateToken(token)
      id == gate.user
  IN  IF ~gate.pass THEN Rejected(gate.resp)
      ELSE IF ~wellFormed THEN Rejected(ValidationFailed)
      ELSE IF ~comparePassword(users[id], currentPassword)
      THEN Rejected(Fail(400, "Current password is incorrect"))
      ELSE IF comparePassword(users[id], newPassword)
      THEN Rejected(Fail(400, "New password must be different from current password"))
      ELSE [resp |-> Success(200, "Password changed successfully. Please log in again."),
            users |-> [users EXCEPT ![id].password = bcryptHash(newPassword),
                                    ![id].refreshTokens = <<>>]]

ChangePassword(token, currentPassword, newPassword, wellFormed) ==
  /\ users' = changePassword(token, currentPassword, newPassword, wellFormed).users
  /\ UNCHANGED <<now, failRun, revoked>>

\* ------------------------------------------------ DELETE /api/user/account
deleteAccount(token) ==
  LET gate == authenticateToken(token)
      id == gate.user
  IN  IF ~gate.pass THEN Rejected(gate.resp)
      ELSE [resp |-> Success(200, "Account deactivated successfully"),
            users |-> [users EXCEPT ![id].isActive = FALSE,
                                    ![id].refreshTokens = <<>>]]

DeleteAccount(token) ==
  /\ users' = deleteAccount(token).users
  /\ UNCHANGED <<now, failRun, revoked>>

\* ------------------------------------------------------- the rate limiters
\* express-rate-limit with its memory store: one hit counter per address and
\* instance, started at the address's first request and dropped windowMs
\* later; a request is answered 429 when its hit makes the counter exceed
\* max.  server.js builds one instance and mounts it on /api/auth; routes/auth.js
\* builds another and puts it on register, login and forgot-password.  The
\* general limiter of server.js (100 per window) stands in front of both and
\* never admits what they refuse.
RateWindow == 15 * 60 * 1000
AuthRateMax == 5
Addresses == {"10.0.0.1", "10.0.0.2"}
Endpoints == {"register", "login", "refresh", "logout", "forgot-password", "reset-password"}

\* the routes that name authLimiter themselves
RouteLimited == {"register", "login", "forgot-password"}

NoHits == [hits |-> 0, resetTime |-> NoDate]

NoneProcessed == [a \in Addresses |-> 0]

\* the window of a counter is over, or it never began
windowOver(counter, t) == counter.resetTime = NoDate \/ counter.resetTime <= t

\* one instance of rateLimit({ windowMs, max }) meeting a request of an address:
\* the counters after it and whether the request goes on.  A counter past
\* max + 1 is kept at max + 1: every value above max refuses alike.
rateLimit(counters, address, t) ==
  LET current == IF windowOver(counters[address], t)
                 THEN [hits |-> 0, resetTime |-> t + RateWindow]
                 ELSE counters[address]
      hits == current.hits + 1
  IN  [counters |-> [counters EXCEPT
                       ![address] = [current EXCEPT
                                       !.hits = IF hits > AuthRateMax + 1
                                                THEN AuthRateMax + 1 ELSE hits]],
       next |-> hits <= AuthRateMax]

\* as admit, with the limiter of the mount left out: only the routes' own
admit_RouteOnly(address, endpoint) ==
  LET route == rateLimit(limiter.router, address, now)
  IN  IF endpoint \in RouteLimited
      THEN [limiter |-> [limiter EXCEPT !.router = route.counters], next |-> route.next]
      ELSE [limiter |-> limiter, next |-> TRUE]

\* a request to /api/auth/<endpoint> on its way to the handler: the limiter
\* of the mount, then the route's own where it has one
admit(address, endpoint) ==
  LET mount == rateLimit(limiter.server, address, now)
      route == rateLimit(limiter.router, address, now)
  IN  IF ~mount.next
      THEN [limiter |-> [limiter EXCEPT !.server = mount.counters], next |-> FALSE]
      ELSE IF endpoint \in RouteLimited
      THEN [limiter |-> [server |-> mount.counters, router |-> route.counters],
            next |-> route.next]
      ELSE [limiter |-> [limiter EXCEPT !.server = mount.counters], next |-> TRUE]

\* ------------------------------------------------------------ CPD modules
\* The module list of the CPD routes, kept in memory and shared by every
\* request.  Of a module the handlers read and write status, progress and
\* completedAt; NoProgress is a module that has no progress property.
NoProgress == [num |-> -1, asString |-> FALSE]

ModuleIds == {"1", "2", "3"}

mockCPDModules ==
  [m \in ModuleIds |->
     IF m = "3"
     THEN [status |-> "completed", progress |-> [num |-> 100, asString |-> FALSE]]
     ELSE [status |-> "available", progress |-> NoProgress]]

NoModule == "none"

\* what a client sends as progress: a JSON number, or a string of its digits
ProgressNumbers == {0, 50, 100, 101}

ProgressBodies == [num : ProgressNumbers, asString : BOOLEAN]

\* body('progress').isInt({ min: 0, max: 100 }): the validator reads the
\* value as a string, so a number and the string of its digits pass alike
progressValid(progress) == progress.num >= 0 /\ progress.num <= 100

\* progress === 100
isHundred(progress) == progress.num = 100 /\ ~progress.asString

\* mockCPDModules.find(m => m.id === req.params.id)
findModule(id) == IF id \in DOMAIN modules THEN id ELSE NoModule

RejectedCPD(response) == [resp |-> response, modules |-> modules]

\* POST /api/cpd/modules/:id/enroll
enroll(id) ==
  LET m == findModule(id)
  IN  IF m = NoModule THEN RejectedCPD(Fail(404, "CPD module not found"))
      ELSE IF modules[m].status = "completed"
      THEN RejectedCPD(Fail(400, "Module already completed"))
      ELSE [resp |-> Success(200, "Successfully enrolled in CPD module"),
            modules |-> [modules EXCEPT
                           ![m] = [status |-> "in_progress",
                                   progress |-> [num |-> 0, asString |-> FALSE]]]]

Enroll(id) ==
  /\ modules' = enroll(id).modules
  /\ UNCHANGED <<storeVars, limiter, processed, inflight, everLocked,
                 logins, version, issued>>

\* PUT /api/cpd/modules/:id/progress
updateProgress(id, progress) ==
  LET m == findModule(id)
  IN  IF ~progressValid(progress) THEN RejectedCPD(ValidationFailed)
      ELSE IF m = NoModule THEN RejectedCPD(Fail(404, "CPD module not found"))
      ELSE IF modules[m].status = "available"
      THEN RejectedCPD(Fail(400, "Must enroll in module first"))
      ELSE [resp |-> Success(200, "Progress updated successfully"),
            modules |-> [modules EXCEPT
                           ![m] = [status |-> IF isHundred(progress)
                                              THEN "completed" ELSE @.status,
                                   progress |-> progress]]]

UpdateProgress(id, progress) ==
  /\ modules' = updateProgress(id, progress).modules
  /\ UNCHANGED <<storeVars, limiter, processed, inflight, everLocked,
                 logins, version, issued>>

\* ------------------------------------------------------------ specification
Init ==
  /\ users = <<>>
  /\ now = 0
  /\ failRun = <<>>
  /\ revoked = NoRevoked
  /\ limiter = [server |-> [a \in Addresses |-> NoHits],
                router |-> [a \in Addresses |-> NoHits]]
  /\ processed = NoneProcessed
  /\ inflight = <<>>
  /\ everLocked = {}
  /\ logins = <<>>
  /\ version = [i \in 1..MaxUsers |-> 0]
  /\ issued = {}
  /\ modules = mockCPDModules

Tick ==
  /\ \E t \in Instants : t > now /\ now' = t
  /\ UNCHANGED <<users, failRun, revoked>>

\* What a client sends where a token is expected: a token of the expected kind
\* minted for an account at any instant so far, a token of another kind minted
\* now, a string that is no token, or nothing.
PastInstants == { s \in Instants : s <= now }

OtherKinds(kind) ==
  { tok \in UNION { { generateToken(u, now), generateRefreshToken(u, now),
                      generateEmailVerificationToken(u, now),
                      generatePasswordResetToken(now) } : u \in UserIds } :
      tok.typ # kind }

RefreshTokens ==
  { generateRefreshToken(u, s) : u \in UserIds, s \in PastInstants }
    \cup OtherKinds("refresh") \cup {Garbage, NoToken}

ResetTokens ==
  { generatePasswordResetToken(s) : s \in PastInstants }
    \cup OtherKinds("password-reset") \cup {Garbage}

Bearers ==
  { generateToken(u, s) : u \in UserIds, s \in PastInstants }
    \cup OtherKinds("none") \cup {Garbage, NoToken}

\* Spec: one member registers; requests may name the other address as well.
Members == {"ada@x.com"}

\* 429 "Too many authentication attempts, please try again later"
TooManyRequests == UNCHANGED storeVars

\* the handler of an endpoint, on some request for it: the member registers,
\* someone tries an address that has no account, and the token that register
\* gave is exchanged and logged out
Serve(endpoint) ==
  \/ /\ endpoint = "register"
     /\ \E e \in Members : Register(e, "Abcdef1!", NoMember, 0, TRUE)
  \/ /\ endpoint = "login"
     /\ Login("bob@x.com", "Zyxwvu9?", TRUE)
  \/ /\ endpoint = "refresh"
     /\ \E u \in UserIds : Refresh(generateRefreshToken(u, 0))
  \/ /\ endpoint = "logout"
     /\ \E u \in UserIds : Logout(generateRefreshToken(u, 0))
  \/ /\ endpoint = "forgot-password"
     /\ ForgotPassword("bob@x.com", TRUE)
  \/ /\ endpoint = "reset-password"
     /\ ResetPassword(Garbage, "Abcdef1!", TRUE)

\* a request of an address to an auth endpoint
AuthRequest(address, endpoint) ==
  LET admitted == admit(address, endpoint)
      restarted == admitted.limiter.server[address].resetTime
                     # limiter.server[address].resetTime
      before == IF restarted THEN 0 ELSE processed[address]
  IN  /\ limiter' = admitted.limiter
      /\ processed' = [processed EXCEPT
                         ![address] = IF admitted.next THEN before + 1 ELSE before]
      /\ IF admitted.next THEN Serve(endpoint) ELSE TooManyRequests
      /\ UNCHANGED <<inflight, everLocked>>
      /\ UNCHANGED sideVars

Next ==
  \/ Tick /\ UNCHANGED edgeVars
  \/ \E e \in Members, p \in Passwords, ok \in BOOLEAN :
       Register(e, p, NoMember, 0, ok) /\ UNCHANGED edgeVars
  \/ \E e \in Emails, p \in Passwords, ok \in BOOLEAN :
       Login(e, p, ok) /\ UNCHANGED edgeVars
  \/ \E t \in RefreshTokens : Refresh(t) /\ UNCHANGED edgeVars
  \/ \E t \in RefreshTokens : Logout(t) /\ UNCHANGED edgeVars
  \/ \E e \in Emails, ok \in BOOLEAN : ForgotPassword(e, ok) /\ UNCHANGED edgeVars
  \/ \E t \in ResetTokens, p \in Passwords, ok \in BOOLEAN :
       ResetPassword(t, p, ok) /\ UNCHANGED edgeVars
  \/ \E t \in Bearers : GetProfile(t) /\ UNCHANGED edgeVars
  \/ \E t \in Bearers, c \in Passwords, p \in Passwords, ok \in BOOLEAN :
       ChangePassword(t, c, p, ok) /\ UNCHANGED edgeVars
  \/ \E t \in Bearers : DeleteAccount(t) /\ UNCHANGED edgeVars

Spec == Init /\ [][Next]_vars


\* Two members register, with every choice of membership id.
NextMulti ==
  \/ Tick /\ UNCHANGED edgeVars
  \/ \E e \in Emails, p \in Passwords, m \in MemberNums \cup {NoMember},
        r \in MemberNums, ok \in BOOLEAN :
       Register(e, p, m, r, ok) /\ UNCHANGED edgeVars
  \/ \E e \in Emails, ok \in BOOLEAN : ForgotPassword(e, ok) /\ UNCHANGED edgeVars
  \/ \E t \in ResetTokens, p \in Passwords, ok \in BOOLEAN :
       ResetPassword(t, p, ok) /\ UNCHANGED edgeVars
  \/ \E t \in RefreshTokens : Logout(t) /\ UNCHANGED edgeVars

SpecMulti == Init /\ [][NextMulti]_vars

\* The auth endpoints behind their rate limiters, for requests from two
\* addresses.
NextLimiter ==
  \/ Tick /\ UNCHANGED edgeVars
  \/ \E a \in Addresses, ep \in Endpoints : AuthRequest(a, ep)

SpecLimiter == Init /\ [][NextLimiter]_vars

\* The CPD routes, on requests that passed the gate.
NextCPD ==
  \/ \E id \in ModuleIds \cup {"4"} : Enroll(id)
  \/ \E id \in ModuleIds \cup {"4"}, progress \in ProgressBodies :
       UpdateProgress(id, progress)

SpecCPD == Init /\ [][NextCPD]_vars

\* ------------------------------------------------ concurrent failed logins
\* A login request awaits the store and the hasher, so other requests run
\* between its read of the account (User.findOne), its password comparison
\* and the updateOne that incLoginAttempts issues.  incLoginAttempts decides
\* from the document the request read (this); the store applies the update
\* to the document as it is then.

\* the update document incLoginAttempts builds: restart is
\* { $unset: { lockUntil }, $set: { loginAttempts: 1 } }, otherwise
\* { $inc: { loginAttempts: 1 } } with $set: { lockUntil } when lockUntil is a date
loginAttemptsUpdate(this, t) ==
  IF this.lockUntil # NoDate /\ this.lockUntil < t
  THEN [restart |-> TRUE, lockUntil |-> NoDate]
  ELSE [restart |-> FALSE,
        lockUntil |-> IF this.loginAttempts + 1 >= MaxLoginAttempts /\ ~isLocked(this, t)
                      THEN t + LockTime
                      ELSE NoDate]

\* the store applying such an update to a document, atomically
updateOne(doc, update) ==
  IF update.restart
  THEN [doc EXCEPT !.loginAttempts = 1, !.lockUntil = NoDate]
  ELSE [doc EXCEPT !.loginAttempts = @ + 1,
                   !.lockUntil = IF update.lockUntil # NoDate THEN update.lockUntil ELSE @]

\* a login request reads the account and finds the password wrong
LoginVerify(email, password) ==
  LET id == findByEmail(email)
  IN  /\ loginBranch(email, password, TRUE) = "badpassword"
      /\ Len(inflight) < MaxInFlight
      /\ inflight' = Append(inflight, [id |-> id, this |-> users[id]])
      /\ UNCHANGED <<storeVars, limiter, processed, everLocked>>
      /\ UNCHANGED sideVars

\* that request issues its update and answers 401 "Invalid credentials"
LoginUpdate(k) ==
  LET request == inflight[k]
      update == loginAttemptsUpdate(request.this, now)
  IN  /\ users' = [users EXCEPT ![request.id] = updateOne(@, update)]
      /\ inflight' = SubSeq(inflight, 1, k - 1) \o SubSeq(inflight, k + 1, Len(inflight))
      /\ everLocked' = IF update.lockUntil # NoDate
                       THEN everLocked \cup {request.id}
                       ELSE everLocked
      /\ failRun' = [failRun EXCEPT ![request.id] = IF @ < MaxFailRun THEN @ + 1 ELSE @]
      /\ UNCHANGED <<now, revoked, limiter, processed>>
      /\ UNCHANGED sideVars

\* Logins of one member whose failing requests overlap.
NextConcurrent ==
  \/ Tick /\ UNCHANGED edgeVars
  \/ \E e \in Members, p \in Passwords :
       Register(e, p, NoMember, 0, TRUE) /\ UNCHANGED edgeVars
  \/ \E e \in Members, p \in Passwords : LoginVerify(e, p)
  \/ \E k \in 1..Len(inflight) : LoginUpdate(k)
  \/ \E e \in Members, p \in Passwords :
       /\ loginBranch(e, p, TRUE) = "ok"
       /\ Login(e, p, TRUE)
       /\ UNCHANGED edgeVars

SpecConcurrent == Init /\ [][NextConcurrent]_vars

\* --------------------------------------------- concurrent successful logins
\* A successful login awaits the store three times after the password check:
\* the reset of the counter together with the save of lastLogin, the save of
\* cleanExpiredTokens, and the save of the pushed refresh token.  Mongoose
\* writes what the request changed in its own copy of the document:
\* cleanExpiredTokens assigns the filtered array, which is written whole
\* ($set) when it differs from the array loaded and then only to the version
\* of the document the request holds (VersionError otherwise); push is written
\* as $push.  Both writes increment the version key.

\* as setRefreshTokens, without the version in the query
setRefreshTokens_Unversioned(doc, docVersion, tokens, loadedVersion) ==
  [error |-> FALSE, doc |-> [doc EXCEPT !.refreshTokens = tokens]]

\* this.save() after this.refreshTokens = tokens
setRefreshTokens(doc, docVersion, tokens, loadedVersion) ==
  IF docVersion # loadedVersion
  THEN [error |-> TRUE, doc |-> doc]
  ELSE [error |-> FALSE, doc |-> [doc EXCEPT !.refreshTokens = tokens]]

RemoveAt(seq, k) == SubSeq(seq, 1, k - 1) \o SubSeq(seq, k + 1, Len(seq))

\* the clock of SpecLogins also visits the seconds after a token lifetime
LaterInstants == Instants \cup { RefreshTokenTTL + s * Second : s \in 1..MaxSeconds }

Later ==
  /\ \E t \in LaterInstants : t > now /\ now' = t
  /\ UNCHANGED <<users, failRun, revoked>>

\* a login request loads the account and finds the password right
LoginRead(email, password) ==
  LET id == findByEmail(email)
      overlapping == [k \in 1..Len(logins) |-> [logins[k] EXCEPT !.overlapped = TRUE]]
  IN  /\ loginBranch(email, password, TRUE) = "ok"
      /\ Len(logins) < MaxInFlight
      /\ Len(users[id].refreshTokens) + Len(logins) <= MaxTokens
      /\ logins' = Append(overlapping,
                          [id |-> id, this |-> users[id], v |-> version[id],
                           stage |-> "read", refreshToken |-> NoToken,
                           overlapped |-> logins # <<>>])
      /\ UNCHANGED <<storeVars, limiter, processed, inflight, everLocked,
                     version, issued, modules>>

\* that request resets the counter, signs its tokens and saves the account
\* with the expired refresh tokens filtered out of its copy
LoginClean(k) ==
  LET request == logins[k]
      id == request.id
      reset == IF request.this.loginAttempts > 0
               THEN resetLoginAttempts(users[id])
               ELSE users[id]
      tokens == cleanExpiredTokens(request.this, now).refreshTokens
      saved == setRefreshTokens(reset, version[id], tokens, request.v)
      going == [request EXCEPT !.stage = "cleaned",
                               !.refreshToken = generateRefreshToken(id, now)]
  IN  /\ request.stage = "read"
      /\ IF tokens = request.this.refreshTokens
         THEN /\ users' = [users EXCEPT ![id] = reset]
              /\ logins' = [logins EXCEPT ![k] = going]
              /\ UNCHANGED version
         ELSE IF saved.error
         THEN /\ users' = [users EXCEPT ![id] = reset]
              /\ logins' = RemoveAt(logins, k)
              /\ UNCHANGED version
         ELSE /\ users' = [users EXCEPT ![id] = saved.doc]
              /\ version' = [version EXCEPT ![id] = @ + 1]
              /\ logins' = [logins EXCEPT
                              ![k] = [going EXCEPT !.v = @ + 1,
                                                   !.this.refreshTokens = tokens]]
      /\ UNCHANGED <<now, failRun, revoked, limiter, processed, inflight, everLocked,
                     issued, modules>>

\* that request pushes its refresh token, saves and answers 200
LoginSave(k) ==
  LET request == logins[k]
      id == request.id
  IN  /\ request.stage = "cleaned"
      /\ users' = [users EXCEPT ![id] = pushRefreshToken(@, request.refreshToken, now)]
      /\ version' = [version EXCEPT ![id] = @ + 1]
      /\ issued' = issued \cup {[id |-> id, token |-> request.refreshToken,
                                  overlapped |-> request.overlapped]}
      /\ logins' = RemoveAt(logins, k)
      /\ UNCHANGED <<now, failRun, revoked, limiter, processed, inflight, everLocked,
                     modules>>

\* Logins of one member with the right password whose requests overlap.
NextLogins ==
  \/ Later /\ UNCHANGED edgeVars
  \/ \E e \in Members, p \in Passwords :
       Register(e, p, NoMember, 0, TRUE) /\ UNCHANGED edgeVars
  \/ \E e \in Members, p \in Passwords : LoginRead(e, p)
  \/ \E k \in 1..Len(logins) : LoginClean(k)
  \/ \E k \in 1..Len(logins) : LoginSave(k)

SpecLogins == Init /\ [][NextLogins]_vars

\* ==================================================================== claims
Registered(email) == \E i \in UserIds : users[i].email = email

\* the plaintext the stored hash was computed from
PasswordOf(i) == users[i].password.plain

LockRunning(i) == users[i].lockUntil # NoDate /\ users[i].lockUntil > now

LockElapsed(i) == users[i].lockUntil # NoDate /\ users[i].lockUntil <= now

\* the state after five wrong-password logins in a row (part of C1)
C1_AfterFiveFailures ==
  \A i \in UserIds :
    failRun[i] = 5 =>
      /\ LockRunning(i) =>
           \A p \in Passwords : login(users[i].email, p, TRUE).resp.status = 423
      /\ LockElapsed(i) /\ users[i].isActive =>
           LET result == login(users[i].email, PasswordOf(i), TRUE)
           IN  /\ result.resp.status = 200
               /\ result.users[i].loginAttempts = 0

\* the step that is the fifth wrong-password login in a row (part of C1)
C1_FifthFailureLocks ==
  \A i \in UserIds :
    (i \in DOMAIN failRun' /\ failRun[i] = 4 /\ failRun'[i] = 5)
      => users'[i].lockUntil = now + LockTime

\* C1: the wrong-password login that is the fifth in a row since the last
\* success sets lock-until to two hours from now; after it, while the lock
\* window runs, a login is answered 423 whatever its password; and once the
\* window has elapsed a login of the still active account with the correct
\* password is answered 200 and leaves the failed-attempt counter at 0.
C1_Lockout == [](C1_AfterFiveFailures) /\ [][C1_FifthFailureLocks]_vars

\* five failures in a row, and the lock window they opened has elapsed
C1_Witness ==
  \E i \in UserIds : failRun[i] = 5 /\ LockElapsed(i) /\ users[i].isActive

\* C2: whenever an account's lock-until is in the future, a login for it is
\* answered 423 with the correct and with a wrong password, carries no access
\* or refresh token and leaves the store as it was.
C2_LockedLoginFails ==
  \A i \in UserIds :
    LockRunning(i) =>
      \A p \in Passwords :
        LET result == login(users[i].email, p, TRUE)
        IN  /\ result.resp.status = 423
            /\ result.resp.token = NoToken
            /\ result.resp.refreshToken = NoToken
            /\ result.users = users

\* a locked account with a session, asked to log in with its own password
C2_Witness ==
  \E i \in UserIds :
    /\ LockRunning(i)
    /\ users[i].isActive
    /\ users[i].refreshTokens # <<>>
    /\ login(users[i].email, PasswordOf(i), TRUE).resp.status = 423


\* C3: a refresh token that logout took out of an account's set is answered
\* 401 by refresh from then on, whatever was done in between.
C3_LoggedOutTokenRejected ==
  revoked.by = "logout" => refresh(revoked.token).resp.status = 401

\* a refresh token a password reset took out is not exchanged (part of C4)
C4_ResetTokensRejected ==
  revoked.by = "reset" => refresh(revoked.token).resp.status # 200

\* a successful reset-password step leaves the set empty (part of C4)
C4_ResetEmptiesSet ==
  \A t \in ResetTokens, p \in Passwords :
    (ResetPassword(t, p, TRUE) /\ resetTarget(t, TRUE) # NoUser)
      => users'[resetTarget(t, TRUE)].refreshTokens = <<>>

\* C4: a refresh token that was in the account's set when its password was
\* reset is never again exchanged by refresh, and the reset leaves the set empty.
C4_ResetInvalidatesSessions == [](C4_ResetTokensRejected) /\ [][C4_ResetEmptiesSet]_vars

\* a reset token that a reset consumed is refused from then on (part of C5)
C5_ConsumedTokenRejected ==
  revoked.by = "consumed" =>
    \A p \in Passwords :
      LET result == resetPassword(revoked.token, p, TRUE)
      IN  result.resp.status = 400 /\ result.users = users

\* a successful reset-password step clears the stored pair (part of C5)
C5_ResetClearsToken ==
  \A t \in ResetTokens, p \in Passwords :
    (ResetPassword(t, p, TRUE) /\ resetTarget(t, TRUE) # NoUser)
      => /\ users'[resetTarget(t, TRUE)].passwordResetToken = NoToken
         /\ users'[resetTarget(t, TRUE)].passwordResetExpires = NoDate

\* C5: the reset clears the stored reset token and its expiry, and a reset
\* token that a successful reset consumed is answered 400 by every later
\* reset-password request, which changes nothing.
C5_ResetTokenSingleUse == [](C5_ConsumedTokenRejected) /\ [][C5_ResetClearsToken]_vars

\* C6 as stated: a login with a wrong password for any existing account gets
\* the response a login for an address without account gets.
C6_SameResponseForAnyAccount ==
  \A i \in UserIds, e \in Emails, p \in Passwords :
    (~Registered(e) /\ p # PasswordOf(i))
      => login(users[i].email, p, TRUE).resp = login(e, p, TRUE).resp

\* C6 amended: a login with a wrong password for an existing account that is
\* active and not locked gets the response (status and message) a login for
\* an address without account gets.
C6_SameResponseWhenUnlocked ==
  \A i \in UserIds, e \in Emails, p \in Passwords :
    (~Registered(e) /\ p # PasswordOf(i) /\ users[i].isActive /\ ~LockRunning(i))
      => login(users[i].email, p, TRUE).resp = login(e, p, TRUE).resp

\* failures were counted for an unlocked account while an address is unknown
C6_Witness ==
  \E i \in UserIds, e \in Emails :
    /\ ~Registered(e)
    /\ users[i].isActive /\ ~LockRunning(i)
    /\ users[i].loginAttempts > 0

\* C7: forgot-password answers an address with an account and an address
\* without one with the same status and the same message.
C7_ForgotPasswordSameBody ==
  \A e1 \in Emails, e2 \in Emails :
    (Registered(e1) /\ ~Registered(e2))
      => /\ forgotPassword(e1, TRUE).resp.status = forgotPassword(e2, TRUE).resp.status
         /\ forgotPassword(e1, TRUE).resp.message = forgotPassword(e2, TRUE).resp.message

\* C8: a register request that passed validation and names the email of an
\* existing account is answered 400 "User with this email already exists" and
\* creates nothing, whatever its password and membership id; no two accounts
\* have the same email.
C8_DuplicateEmailConflict ==
  /\ \A e \in Emails :
       Registered(e) =>
         \A p \in Passwords, m \in MemberNums \cup {NoMember}, r \in MemberNums :
           LET result == register(e, p, m, r, TRUE)
           IN  /\ result.resp = Fail(400, "User with this email already exists")
               /\ result.users = users
  /\ \A i \in UserIds, j \in UserIds : i # j => users[i].email # users[j].email

\* an account exists, a membership id is still free, and a register request
\* with that free id and the account's email is answered with the conflict
C8_Witness ==
  \E i \in UserIds, m \in MemberNums, p \in Passwords :
    /\ ~membershipTaken(m)
    /\ users[i].password # bcryptHash(p)
    /\ register(users[i].email, p, m, m, TRUE).resp.status = 400

\* C9: the gate lets no signed, unexpired refresh, password-reset or
\* email-verification token through; refresh exchanges only refresh tokens;
\* reset-password accepts only password-reset tokens.
C9_OnlyOwnKindAccepted ==
  /\ \A tok \in OtherKinds("none") : ~authenticateToken(tok).pass
  /\ \A tok \in OtherKinds("refresh") : refresh(tok).resp.status # 200
  /\ \A tok \in OtherKinds("password-reset"), p \in Passwords :
       resetPassword(tok, p, TRUE).resp.status # 200

Without(tokens, tok) ==
  SelectSeq(tokens, LAMBDA tokenObj : tokenObj.token # tok)

\* what a logout request answers and does to the store (part of C11)
C11_LogoutFrame ==
  \A tok \in RefreshTokens :
    LET result == logout(tok)
    IN  /\ result.resp.status = 200
        /\ result.resp.message = "Logged out successfully"
        /\ Len(result.users) = Len(users)
        /\ \A i \in UserIds :
             result.users[i] =
               [users[i] EXCEPT !.refreshTokens = Without(users[i].refreshTokens, tok)]
        /\ (\A i \in UserIds : ~hasRefreshToken(users[i], tok)) => result.users = users

\* the same logout request again, right after a logout step (part of C11)
C11_LogoutRepeated ==
  \A tok \in RefreshTokens :
    (revoked'.by = "logout" /\ revoked'.token = tok /\ Logout(tok))
      => (logout(tok).users)' = users'

C13_AtMostFiveProcessed ==
  \A a \in Addresses : processed[a] <= AuthRateMax

\* a request that arrives when the address has used up its window leaves the
\* store as it is (part of C13)
C13_RefusedBeforeHandler ==
  \A a \in Addresses :
    (/\ ~windowOver(limiter.server[a], now)
     /\ limiter.server[a].hits >= AuthRateMax
     /\ limiter'.server[a] # limiter.server[a])
      => UNCHANGED storeVars

C14_DeactivatedRejectsAll ==
  \A i \in UserIds :
    ~users[i].isActive =>
      /\ \A p \in Passwords :
           LET result == login(users[i].email, p, TRUE)
           IN  /\ result.resp.status = 401
               /\ result.resp.token = NoToken
               /\ result.resp.refreshToken = NoToken
               /\ result.users[i].refreshTokens = users[i].refreshTokens
      /\ \A tok \in RefreshTokens :
           (tok.typ = "refresh" /\ tok.userId = i) =>
             LET result == refresh(tok)
             IN  /\ result.resp.status # 200
                 /\ result.resp.token = NoToken
                 /\ verifyRefreshToken(tok, now) = "ok" => result.resp.status = 401
      /\ \A tok \in Bearers :
           tok.userId = i =>
             /\ ~authenticateToken(tok).pass
             /\ authenticateToken(tok).resp.status = 401

\* a deactivated account for which an unexpired access token and an
\* unexpired refresh token are in circulation
C14_Witness ==
  \E i \in UserIds :
    /\ ~users[i].isActive
    /\ \E tok \in Bearers : tok.userId = i /\ jwtVerify(tok, JWT_SECRET, now) = "ok"
    /\ \E tok \in RefreshTokens : tok.userId = i /\ verifyRefreshToken(tok, now) = "ok"

\* the access token the gate let through for a successful change-password
\* is refused by the gate afterwards (part of C15)
C15_ChangeInvalidatesAccess ==
  \A tok \in Bearers, c \in Passwords, p \in Passwords :
    (/\ changePassword(tok, c, p, TRUE).resp.status = 200
     /\ ChangePassword(tok, c, p, TRUE))
      => ~(authenticateToken(tok).pass)'

\* the access tokens issued together with the sessions a successful
\* reset-password ends are refused by the gate afterwards (part of C15)
C15_ResetInvalidatesAccess ==
  \A tok \in ResetTokens, p \in Passwords :
    (resetTarget(tok, TRUE) # NoUser /\ ResetPassword(tok, p, TRUE))
      => \A k \in 1..Len(users[resetTarget(tok, TRUE)].refreshTokens) :
           LET session == users[resetTarget(tok, TRUE)].refreshTokens[k].token
               access == generateToken(session.userId, session.iat * Second)
           IN  ~(authenticateToken(access).pass)'

\* C15: after a successful reset-password or change-password, the gate
\* refuses every access token issued to the account before the change.
C15_PasswordChangeEndsSessions ==
  [][C15_ChangeInvalidatesAccess /\ C15_ResetInvalidatesAccess]_vars

\* the entries of a refresh-token set whose expiry is after t, in their order
Unexpired(tokens, t) ==
  SelectSeq(tokens, LAMBDA tokenObj : tokenObj.expiresAt > t)

\* C16: right after a successful login the account's refresh-token set has
\* no entry whose expiry is not in the future, ends with the refresh token
\* the login returned, expiring 7 days from now, and before it holds exactly
\* the earlier entries that had not expired, in their order.
C16_LoginPrunesAndAppends ==
  \A e \in Emails, p \in Passwords :
    LET result == login(e, p, TRUE)
        i == findByEmail(e)
        after == result.users[i].refreshTokens
    IN  result.resp.status = 200 =>
          /\ \A k \in 1..Len(after) : after[k].expiresAt > now
          /\ after[Len(after)] =
               [token |-> result.resp.refreshToken, expiresAt |-> now + RefreshTokenTTL]
          /\ result.resp.refreshToken = generateRefreshToken(i, now)
          /\ SubSeq(after, 1, Len(after) - 1) = Unexpired(users[i].refreshTokens, now)

\* a login is about to succeed for an account that holds an expired entry
\* and an unexpired one
C16_Witness ==
  \E i \in UserIds, p \in Passwords :
    /\ login(users[i].email, p, TRUE).resp.status = 200
    /\ \E k \in 1..Len(users[i].refreshTokens) : users[i].refreshTokens[k].expiresAt <= now
    /\ \E k \in 1..Len(users[i].refreshTokens) : users[i].refreshTokens[k].expiresAt > now

\* C17: however failed logins for one account overlap, an account whose
\* stored failed-attempt counter is 5 or more has had its lock-until set.
C17_CounterAtLimitWasLocked ==
  \A i \in UserIds :
    users[i].loginAttempts >= MaxLoginAttempts => i \in everLocked

\* C18: for an active account whose lock-until is set and not greater than
\* the current time, a login with a wrong password leaves the failed-attempt
\* counter at exactly 1 and lock-until cleared.
C18_ExpiredLockRestartsCount ==
  \A i \in UserIds :
    (LockElapsed(i) /\ users[i].isActive) =>
      \A p \in Passwords :
        p # PasswordOf(i) =>
          LET result == login(users[i].email, p, TRUE)
          IN  /\ result.users[i].loginAttempts = 1
              /\ result.users[i].lockUntil = NoDate

\* the failed-attempt counter and lock-until of every account
Counters(store) == [i \in 1..Len(store) |-> <<store[i].loginAttempts, store[i].lockUntil>>]

\* a handler's result leaves the counters of the accounts there are as they were
SameCounters(result) ==
  \A i \in UserIds : Counters(result.users)[i] = Counters(users)[i]

\* C19: the failed-attempt counter and lock-until of an account are changed
\* by no login for another or an unknown email, no login refused in
\* validation or as locked or inactive, and by no refresh, logout,
\* forgot-password, reset-password, register, change-password, account
\* deactivation or pass through the gate.
C19_CountersChangeOnlyInLogin ==
  /\ \A e \in Emails, p \in Passwords, ok \in BOOLEAN :
       LET result == login(e, p, ok)
           branch == loginBranch(e, p, ok)
       IN  \A i \in UserIds :
             (users[i].email # e \/ branch \in {"validation", "notfound", "locked", "inactive"})
               => Counters(result.users)[i] = Counters(users)[i]
  /\ \A tok \in RefreshTokens : SameCounters(refresh(tok)) /\ SameCounters(logout(tok))
  /\ \A e \in Emails, ok \in BOOLEAN : SameCounters(forgotPassword(e, ok))
  /\ \A tok \in ResetTokens, p \in Passwords, ok \in BOOLEAN :
       SameCounters(resetPassword(tok, p, ok))
  /\ \A e \in Emails, p \in Passwords, ok \in BOOLEAN :
       SameCounters(register(e, p, NoMember, 0, ok))
  /\ \A tok \in Bearers :
       /\ SameCounters(getProfile(tok))
       /\ SameCounters(deleteAccount(tok))
       /\ \A c \in Passwords, p \in Passwords, ok \in BOOLEAN :
            SameCounters(changePassword(tok, c, p, ok))

\* failures have been counted for an account, and a change-password request
\* that passes the gate names a wrong current password
C19_Witness ==
  \E i \in UserIds, tok \in Bearers, c \in Passwords, p \in Passwords :
    /\ users[i].loginAttempts > 0
    /\ authenticateToken(tok).pass /\ authenticateToken(tok).user = i
    /\ changePassword(tok, c, p, TRUE).resp.message = "Current password is incorrect"

C21_OverlappingLoginsKeepTokens ==
  logins = <<>> =>
    \A done \in issued :
      verifyRefreshToken(done.token, now) = "ok" =>
        /\ hasRefreshToken(users[done.id], done.token)
        /\ refresh(done.token).resp.status = 200
        /\ refresh(done.token).resp.token = generateToken(done.id, now)

\* two logins of one account that overlapped have both been answered 200,
\* with different refresh tokens that have not expired
C21_Witness ==
  /\ logins = <<>>
  /\ \E a \in issued, b \in issued :
       /\ a.id = b.id /\ a.token # b.token
       /\ a.overlapped /\ b.overlapped
       /\ verifyRefreshToken(a.token, now) = "ok"
       /\ verifyRefreshToken(b.token, now) = "ok"

\* the access token register or login signed together with a refresh token
AccessTokenWith(refreshToken) == generateToken(refreshToken.userId, refreshToken.iat * Second)

\* C22: the access token a successful login returns differs from the access
\* token of the register and of every earlier login of the account whose
\* refresh token the account still holds, and the gate accepts it.
C22_LoginTokenIsNew ==
  \A i \in UserIds :
    LET result == login(users[i].email, PasswordOf(i), TRUE)
    IN  result.resp.status = 200 =>
          /\ \A k \in 1..Len(users[i].refreshTokens) :
               result.resp.token # AccessTokenWith(users[i].refreshTokens[k].token)
          /\ authenticateToken(result.resp.token).pass

\* a reset-password request with this token would find an account in the store
ResetTokenUsable(store, token, t) ==
  /\ verifyPasswordResetToken(token, t) = "ok"
  /\ \E j \in 1..Len(store) :
       store[j].passwordResetToken = token /\ store[j].passwordResetExpires > t

C23_TokenAndExpiryPaired ==
  \A i \in UserIds :
    users[i].passwordResetToken = NoToken <=> users[i].passwordResetExpires = NoDate

C23_SecondRequestRetiresFirst ==
  \A i \in UserIds :
    LET first == users[i].passwordResetToken
        second == forgotPassword(users[i].email, TRUE)
    IN  first # NoToken => ~ResetTokenUsable(second.users, first, now)

\* C23: the stored reset token and its expiry are both set or both absent,
\* and once forgotPassword is served again for an account that holds the
\* token of an earlier forgotPassword, the earlier token resets no password.
C23_OneUsableResetToken == C23_TokenAndExpiryPaired /\ C23_SecondRequestRetiresFirst

\* a handler's response carries an access token whose subject is locked as
\* the request arrives (as it is created, for the account register creates)
IssuedForLocked(result) ==
  LET i == result.resp.token.userId
  IN  /\ result.resp.token # NoToken
      /\ isLocked(IF i \in UserIds THEN users[i] ELSE result.users[i], now)

C24_RegisterAndLoginRefuseLocked ==
  /\ \A e \in Emails, p \in Passwords, ok \in BOOLEAN :
       ~IssuedForLocked(register(e, p, NoMember, 0, ok))
  /\ \A e \in Emails, p \in Passwords, ok \in BOOLEAN :
       ~IssuedForLocked(login(e, p, ok))

\* C24 as stated: neither register nor login nor refresh returns an access
\* token whose subject account has lock-until in the future.
C24_NoTokenForLockedAccount ==
  /\ C24_RegisterAndLoginRefuseLocked
  /\ \A tok \in RefreshTokens : ~IssuedForLocked(refresh(tok))

\* C24, amended: register and login return no access token for an account
\* that is locked now; refresh exchanges a stored, unexpired refresh token of
\* an active account whether or not the account is locked, and the gate
\* rejects the access token it returns for as long as the lock runs.
C24_LockedTokenOnlyFromRefresh ==
  /\ C24_RegisterAndLoginRefuseLocked
  /\ \A tok \in RefreshTokens :
       LET result == refresh(tok)
           i == tok.userId
       IN  /\ (/\ verifyRefreshToken(tok, now) = "ok"
               /\ i \in UserIds
               /\ hasRefreshToken(users[i], tok)
               /\ users[i].isActive)
                 => (result.resp.status = 200 /\ result.resp.token = generateToken(i, now))
           /\ IssuedForLocked(result) => ~authenticateToken(result.resp.token).pass

\* an account is locked now and holds a refresh token that refresh exchanges
C24_Witness ==
  \E i \in UserIds, tok \in RefreshTokens :
    /\ LockRunning(i) /\ tok.userId = i
    /\ IssuedForLocked(refresh(tok))
    /\ \A p \in Passwords : login(users[i].email, p, TRUE).resp.status = 423

\* C25: with requests served one at a time, the failed-attempt counter of
\* every account is within 0..5 in every state.
C25_CounterWithinLimit ==
  \A i \in UserIds : users[i].loginAttempts \in 0..MaxLoginAttempts

\* C26: an account whose lock-until is set, running or elapsed, has a
\* failed-attempt counter of at least 5.
C26_LockMeansFiveFailures ==
  \A i \in UserIds : users[i].lockUntil # NoDate => users[i].loginAttempts >= MaxLoginAttempts

\* C27: a well-formed register request with an email no account has and no
\* membership id is answered 201, whatever membership id the hook draws.
C27_AutoIdRegisters ==
  \A e \in Emails, p \in Passwords, randomNum \in MemberNums :
    ~Registered(e) => register(e, p, NoMember, randomNum, TRUE).resp.status = 201

\* C28: a reset-password request answered 200 replaces the password hash,
\* clears the reset token and its expiry and empties the refresh-token set of
\* the account it resets, and changes nothing else: the failed-attempt
\* counter, lock-until and the active flag are as before, an account that
\* was locked is still locked, and every other account is untouched.
C28_ResetChangesOnlyCredentials ==
  \A tok \in ResetTokens, p \in Passwords :
    LET result == resetPassword(tok, p, TRUE)
        id == resetTarget(tok, TRUE)
    IN  result.resp.status = 200 =>
          /\ id \in UserIds
          /\ \A j \in UserIds : j # id => result.users[j] = users[j]
          /\ result.users[id].password = bcryptHash(p)
          /\ result.users[id].passwordResetToken = NoToken
          /\ result.users[id].passwordResetExpires = NoDate
          /\ result.users[id].refreshTokens = <<>>
          /\ [result.users[id] EXCEPT
                !.password = users[id].password,
                !.passwordResetToken = users[id].passwordResetToken,
                !.passwordResetExpires = users[id].passwordResetExpires,
                !.refreshTokens = users[id].refreshTokens] = users[id]
          /\ isLocked(result.users[id], now) <=> isLocked(users[id], now)

\* an account is locked now and a reset-password request for it is answered 200
C28_Witness ==
  \E i \in UserIds, tok \in ResetTokens, p \in Passwords :
    /\ LockRunning(i)
    /\ resetTarget(tok, TRUE) = i
    /\ resetPassword(tok, p, TRUE).resp.status = 200

\* a handler's response carries an access or a refresh token of account i
IssuedFor(i, result) ==
  result.resp.token.userId = i \/ result.resp.refreshToken.userId = i

C29_NoTokenWhenDeactivated ==
  \A i \in UserIds :
    ~users[i].isActive =>
      /\ \A e \in Emails, p \in Passwords, ok \in BOOLEAN :
           /\ ~IssuedFor(i, register(e, p, NoMember, 0, ok))
           /\ ~IssuedFor(i, login(e, p, ok))
      /\ \A tok \in RefreshTokens : ~IssuedFor(i, refresh(tok))

C29_StaysDeactivated ==
  \A i \in UserIds : ~users[i].isActive => ~users'[i].isActive

\* C29: an account whose active flag is false keeps it false through every
\* request, and while it is false neither register nor login nor refresh
\* returns an access or a refresh token of that account.
C29_DeactivationIsPermanent == [](C29_NoTokenWhenDeactivated) /\ [][C29_StaysDeactivated]_vars

\* a deactivated account holds a reset token that reset-password accepts
C29_Witness ==
  \E i \in UserIds, tok \in ResetTokens :
    /\ ~users[i].isActive
    /\ resetTarget(tok, TRUE) = i
    /\ login(users[i].email, PasswordOf(i), TRUE).resp.status = 401

\* C30: the status of every CPD module is 'completed' exactly when its
\* progress is 100; enrolling in a completed module is refused and changes
\* nothing; updating the progress of an available module is refused and
\* changes nothing.
C30_CompletedIffFullProgress ==
  /\ \A m \in ModuleIds : modules[m].status = "completed" <=> modules[m].progress.num = 100
  /\ \A m \in ModuleIds :
       modules[m].status = "completed" =>
         (enroll(m).resp.status = 400 /\ enroll(m).modules = modules)
  /\ \A m \in ModuleIds, progress \in ProgressBodies :
       modules[m].status = "available" =>
         /\ updateProgress(m, progress).resp.status = 400
         /\ updateProgress(m, progress).modules = modules

====
